---- MODULE Spec2Model ----
(***************************************************************************)
(* Single-server queue (M/M/1) discrete-event simulation:                  *)
(* Single_Server_Queue/Rust/src/{engine,event,entities,statistics,main}.rs *)
(*                                                                         *)
(* Simulated time is an f64 in the source.  Here every timestamp and every *)
(* drawn duration is a natural number, so sums and products are exact.     *)
(* The exponential draw -ln(U) * inv_rate is an input of the handlers: a   *)
(* duration chosen from 0..MaxDur (a draw so small that now + d rounds to  *)
(* now is the duration 0).                                                 *)
(*                                                                         *)
(* The specifications share the variables:                                 *)
(*   Spec        the driver loop of main(), one step per statement group   *)
(*               that ends at a Statistics report or at a handler's end;   *)
(*   SpecEngine  the SimulationEngine API under an arbitrary script of     *)
(*               schedule / run_step calls;                                *)
(*   SpecStats   the Statistics API under an arbitrary script of record_*  *)
(*               calls with non-decreasing timestamps.                     *)
(*   SpecEvent   comparisons of two Event values;                          *)
(*   SpecFault   the driver entered with nothing scheduled, or with        *)
(*               start_service called on an empty queue;                   *)
(*   SpecRates   the driver with rates of either sign;                     *)
(*   SpecStop    the driver under every stopping condition, limit 0        *)
(*               included, its steps weakly fair;                          *)
(*   SpecLive    the driver up to a time horizon, every Arrival re-armed   *)
(*               strictly later than now, its steps weakly fair.           *)
(***************************************************************************)
EXTENDS Integers, Sequences, FiniteSets, TLC

\* ------------------------------------------------------------------ bounds
MaxDur == 2
MaxEvents == 6
MaxStopTime == 3
MaxStopCustomers == 2
MaxCalls == 4
MaxRecords == 3
MaxT == 2
MaxLen == 2
MaxArg == 1
MaxCmp == 2

\* f64::INFINITY (engine.rs:46): above every timestamp the bounded runs reach.
INFINITY == 1000000

VARIABLES engine, server, stats, event_count, condition, pc, event, wait_time,
          arrivals, started, starts, history,
          lambda, mu, time_series, report, before

vars == <<engine, server, stats, event_count, condition, pc, event, wait_time,
          arrivals, started, starts, history,
          lambda, mu, time_series, report, before>>

\* History of the run: arrivals is the timestamps of the Arrivals dispatched,
\* started the number of services begun, starts the times they began at.

\* What main() reads once and never changes.
config == <<condition, lambda, mu>>

\* What the handlers never write: the sampled series, the final report, and
\* the state at the start of the turn (history).
observers == <<time_series, report, before>>

\* ------------------------------------------------------------------ event.rs
Arrival == "Arrival"
Departure == "Departure"
EventType == {Arrival, Departure}

\* Option<Event>::None
None == [event_type |-> "None"]

\* Event::new
Event(time, event_type) == [time |-> time, event_type |-> event_type]

\* f64::partial_cmp on two timestamps that are numbers (on a NaN it returns
\* None, which cmp turns into Equal; the model's timestamps are never NaN).
partial_cmp(a, b) == IF a < b THEN "Less" ELSE IF a = b THEN "Equal" ELSE "Greater"

\* impl PartialEq for Event
eq(self, other) == self.time = other.time

cmp_ascending(self, other) == partial_cmp(self.time, other.time)

\* impl Ord for Event: other.time.partial_cmp(&self.time)
cmp(self, other) == partial_cmp(other.time, self.time)

\* ------------------------------------------------------------------ engine.rs
\* SimulationEngine::new
SimulationEngine == [next_arrival |-> None, next_departure |-> None, now |-> 0]

schedule_spill(eng, ev) ==
    IF ev.event_type = Arrival
    THEN IF eng.next_arrival = None
         THEN [eng EXCEPT !.next_arrival = ev]
         ELSE [eng EXCEPT !.next_departure = ev]
    ELSE [eng EXCEPT !.next_departure = ev]

schedule_swapped(eng, ev) ==
    IF ev.event_type = Arrival
    THEN [eng EXCEPT !.next_departure = ev]
    ELSE [eng EXCEPT !.next_arrival = ev]

schedule(eng, ev) ==
    IF ev.event_type = Arrival
    THEN [eng EXCEPT !.next_arrival = ev]
    ELSE [eng EXCEPT !.next_departure = ev]

has_next_event(eng) ==
    eng.next_arrival # None \/ eng.next_departure # None

min(a, b) == IF a <= b THEN a ELSE b

peek_next_time(eng) ==
    IF eng.next_arrival # None /\ eng.next_departure # None
    THEN min(eng.next_arrival.time, eng.next_departure.time)
    ELSE IF eng.next_arrival # None THEN eng.next_arrival.time
    ELSE IF eng.next_departure # None THEN eng.next_departure.time
    ELSE INFINITY

\* Option::take on one slot, then `if let Some(ref e) = event { self.now = e.time }`
take_arrival(eng) ==
    [engine |-> [eng EXCEPT !.next_arrival = None, !.now = eng.next_arrival.time],
     event  |-> eng.next_arrival]

take_departure(eng) ==
    [engine |-> [eng EXCEPT !.next_departure = None, !.now = eng.next_departure.time],
     event  |-> eng.next_departure]

run_step_strict(eng) ==
    IF eng.next_arrival # None /\ eng.next_departure # None
    THEN IF eng.next_arrival.time < eng.next_departure.time
         THEN take_arrival(eng)
         ELSE take_departure(eng)
    ELSE IF eng.next_arrival # None THEN take_arrival(eng)
    ELSE IF eng.next_departure # None THEN take_departure(eng)
    ELSE [engine |-> eng, event |-> None]

run_step_latest(eng) ==
    IF eng.next_arrival # None /\ eng.next_departure # None
    THEN IF eng.next_arrival.time >= eng.next_departure.time
         THEN take_arrival(eng)
         ELSE take_departure(eng)
    ELSE IF eng.next_arrival # None THEN take_arrival(eng)
    ELSE IF eng.next_departure # None THEN take_departure(eng)
    ELSE [engine |-> eng, event |-> None]

run_step_stale_now(eng) ==
    IF eng.next_arrival # None /\ eng.next_departure # None
    THEN IF eng.next_arrival.time <= eng.next_departure.time
         THEN [take_arrival(eng) EXCEPT !.engine.now = eng.now]
         ELSE take_departure(eng)
    ELSE IF eng.next_arrival # None THEN take_arrival(eng)
    ELSE IF eng.next_departure # None THEN take_departure(eng)
    ELSE [engine |-> eng, event |-> None]

\* The result pairs the engine after the call with the returned Option<Event>.
run_step(eng) ==
    IF eng.next_arrival # None /\ eng.next_departure # None
    THEN IF eng.next_arrival.time <= eng.next_departure.time
         THEN take_arrival(eng)
         ELSE take_departure(eng)
    ELSE IF eng.next_arrival # None THEN take_arrival(eng)
    ELSE IF eng.next_departure # None THEN take_departure(eng)
    ELSE [engine |-> eng, event |-> None]

\* ------------------------------------------------------------------ statistics.rs
\* Statistics::new
Statistics ==
    [total_wait_time |-> 0, served_customers |-> 0, total_busy_time |-> 0,
     last_event_time |-> 0, area_under_q |-> 0, last_queue_length |-> 0,
     server_busy |-> FALSE, area_under_customers |-> 0,
     last_customers_in_system |-> 0]

record_queue_change_retro(st, time, queue_length) ==
    LET time_delta == time - st.last_event_time
    IN  [st EXCEPT
           !.area_under_q = @ + queue_length * time_delta,
           !.area_under_customers = @ + st.last_customers_in_system * time_delta,
           !.last_event_time = time,
           !.last_queue_length = queue_length,
           !.last_customers_in_system =
               queue_length + (IF st.server_busy THEN 1 ELSE 0)]

record_queue_change(st, time, queue_length) ==
    LET time_delta == time - st.last_event_time
    IN  [st EXCEPT
           !.area_under_q = @ + st.last_queue_length * time_delta,
           !.area_under_customers = @ + st.last_customers_in_system * time_delta,
           !.last_event_time = time,
           !.last_queue_length = queue_length,
           !.last_customers_in_system =
               queue_length + (IF st.server_busy THEN 1 ELSE 0)]

record_service_start_counts(st, time, wait) ==
    LET time_delta == time - st.last_event_time
    IN  [st EXCEPT
           !.area_under_q = @ + st.last_queue_length * time_delta,
           !.area_under_customers = @ + st.last_customers_in_system * time_delta,
           !.total_wait_time = @ + wait,
           !.served_customers = @ + 1,
           !.server_busy = TRUE,
           !.last_event_time = time,
           !.last_customers_in_system = st.last_queue_length + 1]

record_service_start_adds_time(st, time, wait) ==
    LET time_delta == time - st.last_event_time
    IN  [st EXCEPT
           !.area_under_q = @ + st.last_queue_length * time_delta,
           !.area_under_customers = @ + st.last_customers_in_system * time_delta,
           !.total_wait_time = @ + time,
           !.server_busy = TRUE,
           !.last_event_time = time,
           !.last_customers_in_system = st.last_queue_length + 1]

record_service_start(st, time, wait) ==
    LET time_delta == time - st.last_event_time
    IN  [st EXCEPT
           !.area_under_q = @ + st.last_queue_length * time_delta,
           !.area_under_customers = @ + st.last_customers_in_system * time_delta,
           !.total_wait_time = @ + wait,
           !.server_busy = TRUE,
           !.last_event_time = time,
           !.last_customers_in_system = st.last_queue_length + 1]

record_service_end_stale(st, time, service_duration) ==
    LET time_delta == time - st.last_event_time
    IN  [st EXCEPT
           !.area_under_q = @ + st.last_queue_length * time_delta,
           !.area_under_customers = @ + st.last_customers_in_system * time_delta,
           !.served_customers = @ + 1,
           !.total_busy_time = @ + service_duration,
           !.server_busy = FALSE,
           !.last_event_time = time]

record_service_end(st, time, service_duration) ==
    LET time_delta == time - st.last_event_time
    IN  [st EXCEPT
           !.area_under_q = @ + st.last_queue_length * time_delta,
           !.area_under_customers = @ + st.last_customers_in_system * time_delta,
           !.served_customers = @ + 1,
           !.total_busy_time = @ + service_duration,
           !.server_busy = FALSE,
           !.last_event_time = time,
           !.last_customers_in_system = st.last_queue_length]

\* An f64 quotient a / b, kept exact as the pair; b = 0 is the NaN or
\* infinity a division by zero yields.
fdiv(a, b) == [num |-> a, den |-> b]

\* The literal 0.0 of the guards.
F64Zero == [num |-> 0, den |-> 1]

average_wait_time(st) ==
    IF st.served_customers = 0 THEN F64Zero
    ELSE fdiv(st.total_wait_time, st.served_customers)

average_queue_length(st, total_time) ==
    IF total_time = 0 THEN F64Zero ELSE fdiv(st.area_under_q, total_time)

utilization_unguarded(st, total_time) == fdiv(st.total_busy_time, total_time)

utilization(st, total_time) ==
    IF total_time = 0 THEN F64Zero ELSE fdiv(st.total_busy_time, total_time)

served_customers(st) == st.served_customers

current_queue_length(st) == st.last_queue_length

instantaneous_utilization(st, current_time) ==
    IF current_time = 0 THEN F64Zero ELSE fdiv(st.total_busy_time, current_time)

current_customers_in_system(st) == st.last_customers_in_system

average_customers_in_system(st, total_time) ==
    IF total_time = 0 THEN F64Zero ELSE fdiv(st.area_under_customers, total_time)

throughput(st, total_time) ==
    IF total_time = 0 THEN F64Zero ELSE fdiv(st.served_customers, total_time)

\* ------------------------------------------------------------------ time_series.rs
\* TimeSeries::new
TimeSeries(interval) ==
    [data |-> <<>>, sample_interval |-> interval, next_sample_time |-> 0]

should_sample(ts, current_time) == current_time >= ts.next_sample_time

\* TimeSeries::sample (main ignores the returned bool)
sample(ts, current_time, value) ==
    IF should_sample(ts, current_time)
    THEN [ts EXCEPT !.data = Append(@, <<current_time, value>>),
                    !.next_sample_time = @ + ts.sample_interval]
    ELSE ts

\* SimulationTimeSeries::new
SimulationTimeSeries(interval) ==
    [queue_length |-> TimeSeries(interval),
     mean_wait_time |-> TimeSeries(interval),
     utilization |-> TimeSeries(interval),
     customers_served |-> TimeSeries(interval),
     customers_in_system |-> TimeSeries(interval),
     throughput |-> TimeSeries(interval)]

\* SimulationTimeSeries::should_sample ("only need to check one")
series_should_sample(series, current_time) ==
    should_sample(series.queue_length, current_time)

\* ------------------------------------------------------------------ entities.rs
\* The sign of 1.0 / rate (inv_mu, inv_lambda); its size is part of the draw.
reciprocal(rate) == IF rate > 0 THEN 1 ELSE -1

\* Server::new (the rate only scales the drawn durations)
Server == [queue |-> <<>>, busy |-> FALSE, service_start_time |-> 0]

push_back_dedup(q, x) ==
    IF q # <<>> /\ q[Len(q)] = x THEN q ELSE Append(q, x)

\* VecDeque::push_back / pop_front
push_back(q, x) == Append(q, x)

pop_back(q) == [value |-> q[Len(q)], queue |-> SubSeq(q, 1, Len(q) - 1)]

pop_front(q) == [value |-> Head(q), queue |-> Tail(q)]

\* The drawn durations: -fastrand::f64().ln() * inv_rate
Durations == 0..MaxDur

\* -fastrand::f64().ln() * inv_rate, for a draw of size d
exponential(d, rate) == d * reciprocal(rate)

\* ------------------------------------------------------------------ main.rs
\* enum StopCondition
Time(max_time) == [kind |-> "Time", bound |-> max_time]
Events(max_events) == [kind |-> "Events", bound |-> max_events]
Customers(max_customers) == [kind |-> "Customers", bound |-> max_customers]

StopCondition ==
    {Time(MaxStopTime), Events(MaxEvents), Customers(MaxStopCustomers)}

should_continue_inclusive(eng, count, st, cond) ==
    IF ~has_next_event(eng) THEN FALSE
    ELSE IF cond.kind = "Time" THEN peek_next_time(eng) <= cond.bound
    ELSE IF cond.kind = "Events" THEN count <= cond.bound
    ELSE st.served_customers <= cond.bound

should_continue_now(eng, count, st, cond) ==
    IF ~has_next_event(eng) THEN FALSE
    ELSE IF cond.kind = "Time" THEN eng.now < cond.bound
    ELSE IF cond.kind = "Events" THEN count < cond.bound
    ELSE st.served_customers < cond.bound

should_continue_unguarded(eng, count, st, cond) ==
    IF cond.kind = "Time" THEN peek_next_time(eng) < cond.bound
    ELSE IF cond.kind = "Events" THEN count < cond.bound
    ELSE st.served_customers < cond.bound

should_continue(eng, count, st, cond) ==
    IF ~has_next_event(eng) THEN FALSE
    ELSE IF cond.kind = "Time" THEN peek_next_time(eng) < cond.bound
    ELSE IF cond.kind = "Events" THEN count < cond.bound
    ELSE st.served_customers < cond.bound

\* let sample_interval = 10_000.0 (main.rs:126), on the scale of the model's
\* timestamps.
sample_interval == 2

\* The rates read from the user: the sign is what the model keeps.
Rates == {-1, 1}

\* The state after the constructors of main() (main.rs:144-151).
Built ==
    /\ engine = SimulationEngine
    /\ server = Server
    /\ stats = Statistics
    /\ event_count = 0
    /\ pc = "start"
    /\ event = None
    /\ wait_time = 0
    /\ arrivals = <<>>
    /\ started = 0
    /\ starts = <<>>
    /\ history = <<>>
    /\ time_series = SimulationTimeSeries(sample_interval)
    /\ report = None
    /\ before = [engine |-> SimulationEngine, server |-> Server, stats |-> Statistics]

\* The same, for one stop condition read from the user.
Constructed == Built /\ condition \in StopCondition

\* A run with well-formed (positive) rates.
Init ==
    /\ Constructed
    /\ lambda = 1
    /\ mu = 1

\* engine.schedule(Event::new(0.0, EventType::Arrival)); let mut event_count = 0
Prime ==
    /\ pc = "start"
    /\ engine' = schedule(engine, Event(0, Arrival))
    /\ pc' = "loop"
    /\ UNCHANGED <<server, stats, event_count, config, observers, event, wait_time,
                   arrivals, started, starts, history>>

\* One pass of the while head and engine.run_step(): the event is taken and
\* counted, and the match selects the handler.  arrivals records the
\* timestamps of the customers that arrived (the dispatched Arrivals).
RunStep ==
    /\ pc = "loop"
    /\ should_continue(engine, event_count, stats, condition)
    /\ event_count < MaxEvents
    /\ LET r == run_step(engine)
       IN  /\ engine' = r.engine
           /\ event' = r.event
           /\ IF r.event = None
              THEN /\ pc' = "loop"
                   /\ UNCHANGED <<event_count, arrivals>>
              ELSE /\ event_count' = event_count + 1
                   /\ pc' = IF r.event.event_type = Arrival
                            THEN "receive_customer" ELSE "handle_departure"
                   /\ arrivals' = IF r.event.event_type = Arrival
                                  THEN Append(arrivals, r.event.time)
                                  ELSE arrivals
    /\ before' = [engine |-> engine, server |-> server, stats |-> stats]
    /\ UNCHANGED <<server, stats, config, time_series, report,
                   wait_time, started, starts, history>>

\* The while head finds should_continue false.
Exit ==
    /\ pc = "loop"
    /\ ~should_continue(engine, event_count, stats, condition)
    /\ pc' = "done"
    /\ UNCHANGED <<engine, server, stats, event_count, config, observers, event, wait_time,
                   arrivals, started, starts, history>>

\* Where start_service returns to: handle_generate's draw after
\* receive_customer, the sampling in main after handle_departure, and the
\* caller's own next statement when it was called outside a turn.
AfterStartService ==
    IF event = None THEN "loop"
    ELSE IF event.event_type = Arrival THEN "generate" ELSE "sample"

ReceiveCustomerRestartsClock ==
    /\ pc = "receive_customer"
    /\ LET now == engine.now
           q == push_back(server.queue, now)
       IN  /\ server' = [server EXCEPT !.queue = q, !.service_start_time = now]
           /\ stats' = record_queue_change(stats, now, Len(q))
    /\ pc' = IF ~server.busy THEN "start_service" ELSE "generate"
    /\ UNCHANGED <<engine, event_count, config, observers, event, wait_time, arrivals,
                   started, starts, history>>

ReceiveCustomerIgnoresBusy ==
    /\ pc = "receive_customer"
    /\ LET now == engine.now
           q == push_back(server.queue, now)
       IN  /\ server' = [server EXCEPT !.queue = q]
           /\ stats' = record_queue_change(stats, now, Len(q))
    /\ pc' = "start_service"
    /\ UNCHANGED <<engine, event_count, config, observers, event, wait_time, arrivals,
                   started, starts, history>>

\* Client::handle_generate -> Server::receive_customer, up to the busy test.
ReceiveCustomer ==
    /\ pc = "receive_customer"
    /\ LET now == engine.now
           q == push_back(server.queue, now)
       IN  /\ server' = [server EXCEPT !.queue = q]
           /\ stats' = record_queue_change(stats, now, Len(q))
    /\ pc' = IF ~server.busy THEN "start_service" ELSE "generate"
    /\ UNCHANGED <<engine, event_count, config, observers, event, wait_time, arrivals,
                   started, starts, history>>

StartServicePopWaitFromStart ==
    /\ pc = "start_service"
    /\ IF server.queue = <<>>
       THEN /\ pc' = AfterStartService
            /\ UNCHANGED <<server, stats, wait_time>>
       ELSE LET now == engine.now
                p == pop_front(server.queue)
            IN  /\ server' = [server EXCEPT !.queue = p.queue]
                /\ wait_time' = now - server.service_start_time
                /\ stats' = record_queue_change(stats, now, Len(p.queue))
                /\ pc' = "service_start"
    /\ UNCHANGED <<engine, event_count, config, observers, event, arrivals, started, starts, history>>

StartServicePopUnguarded ==
    /\ pc = "start_service"
    /\ LET now == engine.now
           q == IF server.queue = <<>> THEN <<now>> ELSE server.queue
           p == pop_front(q)
       IN  /\ server' = [server EXCEPT !.queue = p.queue]
           /\ wait_time' = now - p.value
           /\ stats' = record_queue_change(stats, now, Len(p.queue))
           /\ pc' = "service_start"
    /\ UNCHANGED <<engine, event_count, config, observers, event, arrivals, started, starts, history>>

\* Server::start_service, first half: the empty-queue return, or the pop and
\* the report of the queue length after it.
StartServicePop ==
    /\ pc = "start_service"
    /\ IF server.queue = <<>>
       THEN /\ pc' = AfterStartService
            /\ UNCHANGED <<server, stats, wait_time>>
       ELSE LET now == engine.now
                p == pop_front(server.queue)
                arrival_time == p.value
            IN  /\ server' = [server EXCEPT !.queue = p.queue]
                /\ wait_time' = now - arrival_time
                /\ stats' = record_queue_change(stats, now, Len(p.queue))
                /\ pc' = "service_start"
    /\ UNCHANGED <<engine, event_count, config, observers, event, arrivals, started, starts, history>>

StartServiceBeginFromArrival ==
    /\ pc = "service_start"
    /\ \E service_time \in Durations :
         LET now == engine.now
             arrival_time == now - wait_time
         IN  /\ stats' = record_service_start(stats, now, wait_time)
             /\ server' = [server EXCEPT !.busy = TRUE, !.service_start_time = now]
             /\ engine' = schedule(engine,
                          Event(arrival_time + exponential(service_time, mu),
                                Departure))
    /\ started' = started + 1
    /\ starts' = Append(starts, engine.now)
    /\ pc' = AfterStartService
    /\ UNCHANGED <<event_count, config, observers, event, wait_time, arrivals, history>>

\* Server::start_service, second half: record_service_start, busy,
\* service_start_time, the service-time draw and the Departure.
\* entities.rs passes record_service_start one argument where statistics.rs
\* takes (time, wait_time); the time passed is the handler's `now`.
StartServiceBegin ==
    /\ pc = "service_start"
    /\ \E service_time \in Durations :
         LET now == engine.now
         IN  /\ stats' = record_service_start(stats, now, wait_time)
             /\ server' = [server EXCEPT !.busy = TRUE, !.service_start_time = now]
             /\ engine' = schedule(engine,
                          Event(now + exponential(service_time, mu), Departure))
    /\ started' = started + 1
    /\ starts' = Append(starts, engine.now)
    /\ pc' = AfterStartService
    /\ UNCHANGED <<event_count, config, observers, event, wait_time, arrivals, history>>

GenerateAsDeparture ==
    /\ pc = "generate"
    /\ \E inter_arrival_time \in Durations :
         LET next_time == engine.now + exponential(inter_arrival_time, lambda)
         IN  engine' = schedule(engine, Event(next_time, Departure))
    /\ pc' = "sample"
    /\ UNCHANGED <<server, stats, event_count, config, observers, event, wait_time,
                   arrivals, started, starts, history>>

GenerateAbsolute ==
    /\ pc = "generate"
    /\ \E inter_arrival_time \in Durations :
         LET next_time == exponential(inter_arrival_time, lambda)
         IN  engine' = schedule(engine, Event(next_time, Arrival))
    /\ pc' = "sample"
    /\ UNCHANGED <<server, stats, event_count, config, observers, event, wait_time,
                   arrivals, started, starts, history>>

\* Client::handle_generate after receive_customer: the inter-arrival draw and
\* the next Arrival.
Generate ==
    /\ pc = "generate"
    /\ \E inter_arrival_time \in Durations :
         LET next_time == engine.now + exponential(inter_arrival_time, lambda)
         IN  engine' = schedule(engine, Event(next_time, Arrival))
    /\ pc' = "sample"
    /\ UNCHANGED <<server, stats, event_count, config, observers, event, wait_time,
                   arrivals, started, starts, history>>

HandleDepartureStillBusy ==
    /\ pc = "handle_departure"
    /\ LET now == engine.now
           service_duration == now - server.service_start_time
       IN  stats' = record_service_end(stats, now, service_duration)
    /\ pc' = IF server.queue # <<>> THEN "start_service" ELSE "sample"
    /\ UNCHANGED <<engine, server, event_count, config, observers, event, wait_time,
                   arrivals, started, starts, history>>

HandleDepartureFromZero ==
    /\ pc = "handle_departure"
    /\ LET now == engine.now
           service_duration == now
       IN  /\ server' = [server EXCEPT !.busy = FALSE]
           /\ stats' = record_service_end(stats, now, service_duration)
    /\ pc' = IF server.queue # <<>> THEN "start_service" ELSE "sample"
    /\ UNCHANGED <<engine, event_count, config, observers, event, wait_time, arrivals,
                   started, starts, history>>

HandleDepartureNoPickup ==
    /\ pc = "handle_departure"
    /\ LET now == engine.now
           service_duration == now - server.service_start_time
       IN  /\ server' = [server EXCEPT !.busy = FALSE]
           /\ stats' = record_service_end(stats, now, service_duration)
    /\ pc' = "sample"
    /\ UNCHANGED <<engine, event_count, config, observers, event, wait_time, arrivals,
                   started, starts, history>>

\* Server::handle_departure up to the queue test.  As in start_service, the
\* time passed to record_service_end is the handler's `now`.
HandleDeparture ==
    /\ pc = "handle_departure"
    /\ LET now == engine.now
           service_duration == now - server.service_start_time
       IN  /\ server' = [server EXCEPT !.busy = FALSE]
           /\ stats' = record_service_end(stats, now, service_duration)
    /\ pc' = IF server.queue # <<>> THEN "start_service" ELSE "sample"
    /\ UNCHANGED <<engine, event_count, config, observers, event, wait_time, arrivals,
                   started, starts, history>>

\* main after the handler returns: the periodic sampling of the live
\* accessors, each series testing its own next_sample_time.
Sample ==
    /\ pc = "sample"
    /\ LET now == engine.now
       IN  time_series' =
             IF series_should_sample(time_series, now)
             THEN [queue_length |->
                     sample(time_series.queue_length, now,
                            current_queue_length(stats)),
                   mean_wait_time |->
                     sample(time_series.mean_wait_time, now,
                            average_wait_time(stats)),
                   utilization |->
                     sample(time_series.utilization, now,
                            instantaneous_utilization(stats, now)),
                   customers_served |->
                     sample(time_series.customers_served, now,
                            served_customers(stats)),
                   customers_in_system |->
                     sample(time_series.customers_in_system, now,
                            current_customers_in_system(stats)),
                   throughput |->
                     sample(time_series.throughput, now, throughput(stats, now))]
             ELSE time_series
    /\ pc' = "loop"
    /\ UNCHANGED <<engine, server, stats, event_count, config, report, before,
                   event, wait_time, arrivals, started, starts, history>>

\* main after the loop: total_time = engine.now() and the results printed.
Report ==
    /\ pc = "done"
    /\ LET total_time == engine.now
       IN  report' =
             [total_time |-> total_time,
              event_count |-> event_count,
              served_customers |-> served_customers(stats),
              average_wait_time |-> average_wait_time(stats),
              average_queue_length |-> average_queue_length(stats, total_time),
              average_customers_in_system |->
                average_customers_in_system(stats, total_time),
              utilization |-> utilization(stats, total_time),
              throughput |-> throughput(stats, total_time)]
    /\ pc' = "reported"
    /\ UNCHANGED <<engine, server, stats, event_count, config, time_series, before,
                   event, wait_time, arrivals, started, starts, history>>

Next ==
    \/ Prime
    \/ RunStep
    \/ Exit
    \/ ReceiveCustomer
    \/ StartServicePop
    \/ StartServiceBegin
    \/ Generate
    \/ HandleDeparture
    \/ Sample
    \/ Report

Spec == Init /\ [][Next]_vars

\* The driver is between two turns (or before the first, or after the last).
BetweenTurns == pc \in {"loop", "done"}

\* ------------------------------------------------------------------ the driver off its normal path
\* The driver with two departures from main(): the loop entered with nothing
\* scheduled (the priming Arrival of main.rs:153 left out), and
\* Server::start_service called directly between two turns while the wait
\* queue is empty (no turn of main() ever does that: receive_customer pushes
\* first, handle_departure tests the queue first).
Unprimed ==
    /\ pc = "start"
    /\ pc' = "loop"
    /\ UNCHANGED <<engine, server, stats, event_count, config, observers, event,
                   wait_time, arrivals, started, starts, history>>

CallStartService ==
    /\ pc = "loop"
    /\ event # None
    /\ server.queue = <<>>
    /\ event' = None
    /\ pc' = "start_service"
    /\ UNCHANGED <<engine, server, stats, event_count, config, observers,
                   wait_time, arrivals, started, starts, history>>

NextFault ==
    \/ Next
    \/ Unprimed
    \/ CallStartService

SpecFault == Init /\ [][NextFault]_vars

\* ------------------------------------------------------------------ the rates as read
\* main() with lambda and mu as read_f64_with_default returns them: any f64
\* the user typed, of either sign.
InitRates == Constructed /\ lambda \in Rates /\ mu \in Rates

SpecRates == InitRates /\ [][Next]_vars

\* ------------------------------------------------------------------ the stopping conditions
\* main() for every stopping condition the user can type up to the bounds,
\* a limit of 0 included.  The loop is sequential code: a step that can be
\* taken is taken.
StopConditions ==
    {Time(n) : n \in 0..MaxStopTime}
    \cup {Events(n) : n \in 0..MaxEvents}
    \cup {Customers(n) : n \in 0..MaxStopCustomers}

InitStop == Built /\ lambda = 1 /\ mu = 1 /\ condition \in StopConditions

SpecStop == InitStop /\ [][Next]_vars /\ WF_vars(Next)

\* ------------------------------------------------------------------ the driver kept running
\* main() dispatching every event due before a time horizon, each Arrival
\* re-armed strictly later than `now`.  The horizon is such that the events
\* due before it fit within MaxEvents: per time unit at most one Arrival and
\* its Departure.  The loop is sequential code: a step that can be taken is
\* taken.
LiveHorizon == MaxEvents \div 2

GenerateAtNow ==
    /\ pc = "generate"
    /\ engine' = schedule(engine, Event(engine.now, Arrival))
    /\ pc' = "sample"
    /\ UNCHANGED <<server, stats, event_count, config, observers, event, wait_time,
                   arrivals, started, starts, history>>

GeneratePositive ==
    /\ pc = "generate"
    /\ \E inter_arrival_time \in Durations \ {0} :
         LET next_time == engine.now + exponential(inter_arrival_time, lambda)
         IN  engine' = schedule(engine, Event(next_time, Arrival))
    /\ pc' = "sample"
    /\ UNCHANGED <<server, stats, event_count, config, observers, event, wait_time,
                   arrivals, started, starts, history>>

InitLive == Built /\ lambda = 1 /\ mu = 1 /\ condition = Time(LiveHorizon)

NextLive ==
    \/ Prime
    \/ RunStep
    \/ Exit
    \/ ReceiveCustomer
    \/ StartServicePop
    \/ StartServiceBegin
    \/ GeneratePositive
    \/ HandleDeparture
    \/ Sample
    \/ Report

SpecLive == InitLive /\ [][NextLive]_vars /\ WF_vars(NextLive)

\* ------------------------------------------------------------------ the engine alone
\* A script of calls on a fresh SimulationEngine; history is the script with
\* what each call was given or returned.
LastCall(h) == IF h = <<>> THEN [op |-> "none", event |-> None] ELSE h[Len(h)]

ScriptEvents == {Event(t, k) : t \in 0..MaxT, k \in EventType}

InitEngine == Init /\ condition = Events(MaxEvents)

CallSchedule ==
    /\ pc = "start"
    /\ Len(history) < MaxCalls
    /\ \E ev \in ScriptEvents :
         /\ engine' = schedule(engine, ev)
         /\ history' = Append(history, [op |-> "schedule", event |-> ev])
    /\ UNCHANGED <<server, stats, event_count, config, observers, pc, event, wait_time,
                   arrivals, started, starts>>

CallRunStep ==
    /\ pc = "start"
    /\ Len(history) < MaxCalls
    /\ LET r == run_step(engine)
       IN  /\ engine' = r.engine
           /\ history' = Append(history, [op |-> "run_step", event |-> r.event])
    /\ UNCHANGED <<server, stats, event_count, config, observers, pc, event, wait_time,
                   arrivals, started, starts>>

NextEngine == CallSchedule \/ CallRunStep

SpecEngine == InitEngine /\ [][NextEngine]_vars

\* ------------------------------------------------------------------ the events alone
\* A script of comparisons of two Event values, each logged with what cmp
\* and eq returned.
CallCmp ==
    /\ pc = "start"
    /\ Len(history) < MaxCmp
    /\ \E e1 \in ScriptEvents, e2 \in ScriptEvents :
         history' = Append(history, [op |-> "cmp", self |-> e1, other |-> e2,
                                     ordering |-> cmp(e1, e2),
                                     equal |-> eq(e1, e2)])
    /\ UNCHANGED <<engine, server, stats, event_count, config, observers, pc, event,
                   wait_time, arrivals, started, starts>>

SpecEvent == InitEngine /\ [][CallCmp]_vars

\* ------------------------------------------------------------------ the accumulator alone
\* A script of record_* calls on a fresh Statistics, timestamps non-decreasing.
CallRecordQueueChange ==
    /\ pc = "start"
    /\ Len(history) < MaxRecords
    /\ \E time \in stats.last_event_time..MaxT, queue_length \in 0..MaxLen :
         /\ stats' = record_queue_change(stats, time, queue_length)
         /\ history' = Append(history, [op |-> "record_queue_change",
                                        time |-> time, value |-> queue_length])
    /\ UNCHANGED <<engine, server, event_count, config, observers, pc, event, wait_time,
                   arrivals, started, starts>>

CallRecordServiceStart ==
    /\ pc = "start"
    /\ Len(history) < MaxRecords
    /\ \E time \in stats.last_event_time..MaxT, wait \in 0..MaxArg :
         /\ stats' = record_service_start(stats, time, wait)
         /\ history' = Append(history, [op |-> "record_service_start",
                                        time |-> time, value |-> wait])
    /\ UNCHANGED <<engine, server, event_count, config, observers, pc, event, wait_time,
                   arrivals, started, starts>>

CallRecordServiceEnd ==
    /\ pc = "start"
    /\ Len(history) < MaxRecords
    /\ \E time \in stats.last_event_time..MaxT, service_duration \in 0..MaxArg :
         /\ stats' = record_service_end(stats, time, service_duration)
         /\ history' = Append(history, [op |-> "record_service_end",
                                        time |-> time, value |-> service_duration])
    /\ UNCHANGED <<engine, server, event_count, config, observers, pc, event, wait_time,
                   arrivals, started, starts>>

NextStats == CallRecordQueueChange \/ CallRecordServiceStart \/ CallRecordServiceEnd

SpecStats == InitEngine /\ [][NextStats]_vars

\* ================================================================== properties

\* ------------------------------------------------------------------ C1
\* C1 (Spec): time monotonicity.  With the Arrival primed at time 0 and every
\* drawn duration >= 0, no step of a driver run lowers engine.now: the
\* sequence of `now` values set by successive run_step calls is non-decreasing.
TimeMonotonic == [][engine'.now >= engine.now]_vars

\* A Departure was dispatched at a time after 0, after earlier events.
TimeMonotonicWitness ==
    /\ pc = "loop"
    /\ event_count >= 3
    /\ event.event_type = Departure
    /\ engine.now >= 2

\* ------------------------------------------------------------------ C2
\* The events run_step can return from the state as it is: the call log's
\* last entry after a CallRunStep step.
Returnable == ScriptEvents \cup {None}

\* C2 (SpecEngine): tie-break.  Whenever an Arrival and a Departure are
\* both pending with identical timestamps, run_step returns the Arrival and
\* leaves the Departure pending; and what run_step returns is decided by the
\* engine's state alone (at most one outcome is possible from any state), so
\* equal scripts dispatch equal sequences of events.
TieBreakDeterminism ==
    /\ [](\A e1, e2 \in Returnable :
            (/\ ENABLED (CallRunStep /\ LastCall(history').event = e1)
             /\ ENABLED (CallRunStep /\ LastCall(history').event = e2)) => e1 = e2)
    /\ [][(/\ engine.next_arrival # None
           /\ engine.next_departure # None
           /\ engine.next_arrival.time = engine.next_departure.time
           /\ LastCall(history').op = "run_step")
          => (/\ LastCall(history').event = engine.next_arrival
              /\ LastCall(history').event.event_type = Arrival
              /\ engine'.next_arrival = None
              /\ engine'.next_departure = engine.next_departure)]_vars

\* run_step has just returned an Arrival whose timestamp the Departure still
\* pending shares.
TieBreakWitness ==
    /\ LastCall(history).op = "run_step"
    /\ LastCall(history).event.event_type = Arrival
    /\ engine.next_departure # None
    /\ engine.next_departure.event_type = Departure
    /\ engine.next_departure.time = LastCall(history).event.time

\* ------------------------------------------------------------------ C3
\* The number of pending events of one kind, over both slots.
PendingOfKind(eng, k) ==
    Cardinality({slot \in {"next_arrival", "next_departure"} :
                   eng[slot].event_type = k})

OnlyScheduleCalls(h) == \A i \in 1..Len(h) : h[i].op = "schedule"

Scheduled(h, k) ==
    \E i \in 1..Len(h) : h[i].op = "schedule" /\ h[i].event.event_type = k

\* C3 as stated (SpecEngine): after any sequence of schedule calls, exactly
\* one Arrival and at most one Departure are pending.
SinglePendingExactlyOneArrival ==
    (history # <<>> /\ OnlyScheduleCalls(history))
    => (/\ PendingOfKind(engine, Arrival) = 1
        /\ PendingOfKind(engine, Departure) <= 1)

\* C3 as amended (SpecEngine): after any sequence of calls, at most one
\* Arrival and at most one Departure are pending (never two of the same
\* kind); after a sequence of schedule calls, exactly one Arrival is pending
\* if and only if the sequence scheduled an Arrival, and likewise for the
\* Departure.
SinglePendingPerKind ==
    /\ \A k \in EventType : PendingOfKind(engine, k) <= 1
    /\ OnlyScheduleCalls(history) =>
         \A k \in EventType :
           (PendingOfKind(engine, k) = 1) <=> Scheduled(history, k)

\* Two Arrivals and a Departure were scheduled, nothing dispatched: one of
\* each kind is pending.
SinglePendingWitness ==
    /\ OnlyScheduleCalls(history)
    /\ Len(history) >= 3
    /\ Cardinality({i \in 1..Len(history) :
                      history[i].event.event_type = Arrival}) >= 2
    /\ Scheduled(history, Departure)
    /\ PendingOfKind(engine, Arrival) = 1
    /\ PendingOfKind(engine, Departure) = 1

\* ------------------------------------------------------------------ C4
InSystem(queue_length, busy) == queue_length + (IF busy THEN 1 ELSE 0)

\* C4 (Spec): queue/occupancy conservation.  After every record_* call the
\* accumulator's customers-in-system is its queue length plus 1 if its
\* server_busy flag is set; between two turns the accumulator's queue length
\* and flag are the Server's queue length and busy flag.
OccupancyConservation ==
    /\ stats.last_customers_in_system =
         InSystem(stats.last_queue_length, stats.server_busy)
    /\ BetweenTurns =>
         /\ stats.last_queue_length = Len(server.queue)
         /\ stats.server_busy = server.busy

\* Between turns, after a departure, with one customer in service and two waiting.
OccupancyWitness ==
    /\ pc = "loop"
    /\ stats.served_customers >= 1
    /\ server.busy
    /\ Len(server.queue) = 2
    /\ stats.last_customers_in_system = 3

\* ------------------------------------------------------------------ C5
\* C5 (Spec): between two turns the Server is busy if and only if a
\* Departure is pending in the engine.
BusyIffDeparturePending ==
    BetweenTurns => (server.busy <=> engine.next_departure # None)

\* Between turns, idle again after a service ended, no Departure pending.
BusyIffDepartureWitness ==
    /\ pc = "loop"
    /\ event.event_type = Departure
    /\ ~server.busy
    /\ engine.next_departure = None

\* ------------------------------------------------------------------ C6
NonDecreasing(q) == \A i \in 1..(Len(q) - 1) : q[i] <= q[i + 1]

\* C6 (Spec): between two turns the wait queue is exactly the arrival
\* timestamps of the customers that arrived and have not started service,
\* in arrival order: the arrivals after the first `started`, none lost,
\* none duplicated, timestamps non-decreasing from head to tail.
QueueHoldsWaiting ==
    BetweenTurns =>
      /\ started <= Len(arrivals)
      /\ server.queue = SubSeq(arrivals, started + 1, Len(arrivals))
      /\ NonDecreasing(server.queue)

\* Two customers that arrived at different times wait, after two others
\* started service.
QueueHoldsWaitingWitness ==
    /\ pc = "loop"
    /\ started >= 2
    /\ Len(server.queue) >= 2
    /\ server.queue[1] < server.queue[2]

\* ------------------------------------------------------------------ C7
\* The queue length in effect at time tau under the reports r (time-ordered):
\* the last one reported at or before tau, 0 before any report.
RECURSIVE ValueAt(_, _)
ValueAt(r, tau) ==
    IF r = <<>> THEN 0
    ELSE IF r[Len(r)].time <= tau THEN r[Len(r)].value
    ELSE ValueAt(SubSeq(r, 1, Len(r) - 1), tau)

IsQueueReport(c) == c.op = "record_queue_change"

\* The integral over [0, upto) of that step function; its change points are
\* whole numbers, so it is the sum of its values on the unit intervals.
RECURSIVE Integral(_, _)
Integral(r, upto) ==
    IF upto <= 0 THEN 0
    ELSE Integral(r, upto - 1) + ValueAt(r, upto - 1)

\* C7 (SpecStats): area accumulation.  For any script of record_* calls with
\* non-decreasing timestamps, area_under_q is the integral up to
\* last_event_time of the step function of the reported queue lengths; and
\* each call adds the previous queue length times (new time - last_event_time),
\* so the value it reports does not change the area of the time before it.
AreaAccumulation ==
    /\ [](stats.area_under_q =
            Integral(SelectSeq(history, IsQueueReport), stats.last_event_time))
    /\ [][stats'.area_under_q =
            stats.area_under_q
              + stats.last_queue_length
                  * (stats'.last_event_time - stats.last_event_time)]_vars

\* Two different queue lengths were each held for a while, and a report of a
\* third came last.
AreaAccumulationWitness ==
    /\ Len(history) = 3
    /\ \A i \in 1..3 : IsQueueReport(history[i])
    /\ history[1].time < history[2].time
    /\ history[2].time < history[3].time
    /\ history[1].value = 2
    /\ history[2].value = 1
    /\ history[3].value = 2
    /\ stats.area_under_q = 2 * (history[2].time - history[1].time)
                              + (history[3].time - history[2].time)

\* ------------------------------------------------------------------ C8
\* C8 (Spec): in a run primed with an Arrival at time 0, exactly one Arrival
\* is pending between any two turns; the Arrival slot changes only when the
\* run is primed, when run_step takes the Arrival for dispatch, and when
\* handle_generate re-arms it.
OneArrivalPending ==
    /\ [](BetweenTurns =>
            /\ engine.next_arrival # None
            /\ engine.next_arrival.event_type = Arrival
            /\ PendingOfKind(engine, Arrival) = 1)
    /\ [][engine'.next_arrival # engine.next_arrival =>
            \/ pc = "start" /\ pc' = "loop"
            \/ pc = "loop" /\ pc' = "receive_customer"
               /\ event' = engine.next_arrival /\ engine'.next_arrival = None
            \/ pc = "generate" /\ pc' = "sample" /\ engine.next_arrival = None]_vars

\* Between turns after the second Arrival was dispatched and re-armed.
OneArrivalPendingWitness ==
    /\ pc = "loop"
    /\ Len(arrivals) >= 2
    /\ event.event_type = Arrival
    /\ engine.next_arrival # None
    /\ engine.next_arrival.time > 0

\* ------------------------------------------------------------------ C9
\* C9 (SpecEngine): schedule(event) stores the event in the slot of its
\* kind, replacing what was pending there, and leaves the slot of the other
\* kind and `now` unchanged.
ScheduleFrame ==
    [][LastCall(history').op = "schedule" =>
         LET ev == LastCall(history').event
         IN  /\ engine'.now = engine.now
             /\ IF ev.event_type = Arrival
                THEN /\ engine'.next_arrival = ev
                     /\ engine'.next_departure = engine.next_departure
                ELSE /\ engine'.next_departure = ev
                     /\ engine'.next_arrival = engine.next_arrival]_vars

\* An Arrival was scheduled over a pending Arrival of another time, with a
\* Departure pending.
ScheduleFrameWitness ==
    /\ Len(history) >= 3
    /\ LastCall(history).op = "schedule"
    /\ LastCall(history).event.event_type = Arrival
    /\ history[Len(history) - 1].op = "schedule"
    /\ history[Len(history) - 1].event.event_type = Arrival
    /\ history[Len(history) - 1].event.time # LastCall(history).event.time
    /\ engine.next_arrival = LastCall(history).event
    /\ engine.next_departure # None
    /\ engine.next_departure.event_type = Departure

\* ------------------------------------------------------------------ C10
PendingEvents(eng) == {eng.next_arrival, eng.next_departure} \ {None}

\* C10 (SpecEngine): run_step returns a pending event of the smallest
\* timestamp, empties that event's slot, sets `now` to its timestamp and
\* leaves the other slot unchanged; with nothing pending it returns nothing
\* and changes neither `now` nor a slot.
RunStepContract ==
    [][LastCall(history').op = "run_step" =>
         LET ret == LastCall(history').event
         IN  IF PendingEvents(engine) = {}
             THEN ret = None /\ engine' = engine
             ELSE /\ ret \in PendingEvents(engine)
                  /\ \A e \in PendingEvents(engine) : ret.time <= e.time
                  /\ ret.time = peek_next_time(engine)
                  /\ engine'.now = ret.time
                  /\ IF ret = engine.next_arrival
                     THEN /\ engine'.next_arrival = None
                          /\ engine'.next_departure = engine.next_departure
                     ELSE /\ engine'.next_departure = None
                          /\ engine'.next_arrival = engine.next_arrival]_vars

\* run_step returned the Departure ahead of a later Arrival, which stays
\* pending, and `now` is the Departure's time.
RunStepContractWitness ==
    /\ LastCall(history).op = "run_step"
    /\ LastCall(history).event.event_type = Departure
    /\ engine.next_arrival # None
    /\ engine.next_arrival.time > LastCall(history).event.time
    /\ engine.next_departure = None
    /\ engine.now = LastCall(history).event.time
    /\ engine.now > 0

\* ------------------------------------------------------------------ C11
\* The turn that has just ended dispatched an event of kind k.
TurnEnded(k) == BetweenTurns /\ event.event_type = k

\* C11 (Spec): a customer that arrives at an idle server with an empty queue
\* goes straight into service within the turn: at the end of the turn the
\* reported queue length (and the queue) is 0, the server is busy since
\* `now`, a Departure is pending, and total_wait_time is what it was when the
\* turn began (the customer adds exactly 0).
StraightIntoService ==
    (/\ TurnEnded(Arrival)
     /\ ~before.server.busy
     /\ before.server.queue = <<>>)
    => /\ stats.last_queue_length = 0
       /\ server.queue = <<>>
       /\ server.busy
       /\ server.service_start_time = engine.now
       /\ engine.next_departure # None
       /\ engine.next_departure.event_type = Departure
       /\ stats.total_wait_time = before.stats.total_wait_time
       /\ stats.served_customers = before.stats.served_customers

\* A later customer (not the one primed at time 0) found the server idle
\* again and is in service at the end of its turn.
StraightIntoServiceWitness ==
    /\ TurnEnded(Arrival)
    /\ ~before.server.busy
    /\ before.server.queue = <<>>
    /\ before.stats.served_customers >= 1
    /\ engine.now > 0
    /\ server.busy

\* ------------------------------------------------------------------ C12
\* The Departures dispatched so far: the events dispatched that were not
\* Arrivals; the one whose handler has not yet run is in progress.
DeparturesDispatched == event_count - Len(arrivals)

DepartureInProgress == IF pc = "handle_departure" THEN 1 ELSE 0

\* C12 (Spec): served_customers changes only in handle_departure, there by
\* exactly 1, every time; so it is the number of Departures dispatched, the
\* one whose handler is about to run not yet counted.
ServedCountsDepartures ==
    /\ [](stats.served_customers = DeparturesDispatched - DepartureInProgress)
    /\ [][/\ stats'.served_customers # stats.served_customers
             => pc = "handle_departure"
          /\ pc = "handle_departure"
             => stats'.served_customers = stats.served_customers + 1]_vars

\* Two Departures were dispatched and counted, and an Arrival turn that
\* started a service since then left the count alone.
ServedCountsDeparturesWitness ==
    /\ TurnEnded(Arrival)
    /\ stats.served_customers = 2
    /\ before.stats.served_customers = 2
    /\ ~before.server.busy
    /\ server.busy

\* ------------------------------------------------------------------ C13
\* C13 (SpecFault): start_service entered with an empty wait queue returns
\* at once: the Server, the Statistics and the scheduler (so its pending
\* Departure, if any) are what they were, and control is back at the caller.
StartServiceEmptyNoOp ==
    [][(pc = "start_service" /\ server.queue = <<>>)
       => /\ server' = server
          /\ stats' = stats
          /\ engine' = engine
          /\ started' = started
          /\ pc' = AfterStartService]_vars

\* start_service was called on an empty queue while a customer was in
\* service, and has returned to its caller.
StartServiceEmptyNoOpWitness ==
    /\ pc = "loop"
    /\ event = None
    /\ event_count >= 2
    /\ server.queue = <<>>
    /\ server.busy
    /\ engine.next_departure # None

\* ------------------------------------------------------------------ C15
\* The while head of main() with nothing pending in the scheduler.
NothingPending == pc = "loop" /\ ~has_next_event(engine)

\* C15 (SpecFault): with no pending event the loop body cannot be entered
\* and the loop can be left, under each stopping condition; the step taken
\* from there ends the loop and dispatches nothing.
DegenerateStop ==
    /\ [](NothingPending => (~ENABLED RunStep /\ ENABLED Exit))
    /\ [][NothingPending
          => /\ pc' = "done"
             /\ event_count' = event_count
             /\ engine' = engine
             /\ server' = server
             /\ stats' = stats]_vars

\* The driver stopped on an empty scheduler although its stopping condition
\* (here: customers served) was not met.
DegenerateStopWitness ==
    /\ pc = "done"
    /\ ~has_next_event(engine)
    /\ condition = Customers(MaxStopCustomers)
    /\ stats.served_customers < MaxStopCustomers
    /\ event_count = 0

\* ------------------------------------------------------------------ C14
\* The quotients the accessors return for the current accumulator, over the
\* elapsed time given.
Quotients(total_time) ==
    {average_queue_length(stats, total_time),
     utilization(stats, total_time),
     instantaneous_utilization(stats, total_time),
     average_customers_in_system(stats, total_time),
     throughput(stats, total_time)}

\* The quotient is a number: nothing was divided by zero.
Defined(q) == q.den # 0

\* C14 (Spec): in every reachable state, and for the elapsed time main()
\* passes (engine.now) as for an elapsed time of 0, every accessor returns a
\* defined number: 0 from average_wait_time while nobody was served, 0 from
\* the others when the elapsed time is 0; the steps that only call accessors
\* (sampling, the final report) leave the accumulator as it was, and what
\* they recorded is such a number.
AccessorsTotal ==
    /\ [](/\ Defined(average_wait_time(stats))
          /\ stats.served_customers = 0 => average_wait_time(stats) = F64Zero
          /\ \A q \in Quotients(engine.now) \cup Quotients(0) : Defined(q)
          /\ \A q \in Quotients(0) : q = F64Zero
          /\ engine.now = 0 => Quotients(engine.now) = {F64Zero}
          /\ pc = "reported"
             => /\ report.utilization = utilization(stats, engine.now)
                /\ Defined(report.utilization)
                /\ Defined(report.average_wait_time)
                /\ Defined(report.average_queue_length)
                /\ Defined(report.average_customers_in_system)
                /\ Defined(report.throughput))
    /\ [][(pc = "sample" \/ pc = "done") => stats' = stats]_vars

\* A run that ended at time 0 with nobody served (every Arrival drawn at
\* distance 0, the event bound reached) has printed zeros throughout, while
\* the server has accumulated nothing to divide.
AccessorsTotalWitness ==
    /\ pc = "reported"
    /\ report.total_time = 0
    /\ report.event_count > 1
    /\ report.served_customers = 0
    /\ report.average_wait_time = F64Zero
    /\ report.utilization = F64Zero
    /\ report.throughput = F64Zero
    /\ time_series.throughput.data # <<>>

\* ------------------------------------------------------------------ C16
\* C16 (SpecRates): whatever rates were read, no event is ever pending with
\* a negative timestamp (a run with a non-positive rate is aborted before it
\* schedules one).
PreconditionFatal ==
    \A e \in PendingEvents(engine) : e.time >= 0

\* ------------------------------------------------------------------ C17
\* The timestamps of the samples recorded in a series, in recording order.
SampleTimes(ts) == [i \in 1..Len(ts.data) |-> ts.data[i][1]]

Spaced(times) ==
    \A i \in 1..(Len(times) - 1) : times[i + 1] - times[i] >= sample_interval

\* C17 (Spec): in each series, two consecutive samples are at least
\* sample_interval apart in simulated time.
MinimumSampleInterval ==
    /\ Spaced(SampleTimes(time_series.queue_length))
    /\ Spaced(SampleTimes(time_series.mean_wait_time))
    /\ Spaced(SampleTimes(time_series.utilization))
    /\ Spaced(SampleTimes(time_series.customers_served))
    /\ Spaced(SampleTimes(time_series.customers_in_system))
    /\ Spaced(SampleTimes(time_series.throughput))

\* ------------------------------------------------------------------ C18
\* The comparisons made so far.
Comparisons == {history[i] : i \in 1..Len(history)}

\* C18 as stated (SpecEvent): e1 compares less than e2 exactly when
\* e1.time < e2.time, and events with equal timestamps compare equal.
OrderedByTimeAscending ==
    \A c \in Comparisons :
        /\ c.ordering = "Less" <=> c.self.time < c.other.time
        /\ c.self.time = c.other.time => c.ordering = "Equal"

\* C18 (SpecEvent), as the code has it: the ordering of Event values is by
\* time descending: e1 compares less than e2 exactly when e1.time > e2.time,
\* greater exactly when e1.time < e2.time; events with equal timestamps
\* compare equal, and are equal under ==, whatever their kinds.
OrderedByTimeDescending ==
    \A c \in Comparisons :
        /\ c.ordering = "Less" <=> c.self.time > c.other.time
        /\ c.ordering = "Greater" <=> c.self.time < c.other.time
        /\ c.ordering = "Equal" <=> c.self.time = c.other.time
        /\ c.equal <=> c.self.time = c.other.time

\* An earlier event was compared with a later one and came out greater, and
\* an Arrival and a Departure of the same time came out equal.
OrderedByTimeDescendingWitness ==
    /\ \E c \in Comparisons :
         c.self.time < c.other.time /\ c.ordering = "Greater"
    /\ \E c \in Comparisons :
         /\ c.self.event_type # c.other.event_type
         /\ c.self.time = c.other.time
         /\ c.ordering = "Equal"
         /\ c.equal

\* ------------------------------------------------------------------ C19
\* A step that dispatches an event after an earlier one: run_step returned
\* it and the driver counted it.
Dispatches == event # None /\ event_count' = event_count + 1

\* C19 as stated (Spec): each dispatched event has a timestamp strictly
\* greater than the previously dispatched event's.
StrictlyMonotonic ==
    [][Dispatches => event'.time > event.time]_vars

\* C19 (Spec), as the code has it: events are dispatched one at a time, each
\* with a timestamp greater than or equal to the previously dispatched
\* event's, and `now` is that timestamp; equal timestamps do occur.
DispatchOrderMonotonic ==
    [][/\ Dispatches => /\ event'.time >= event.time
                        /\ engine'.now = event'.time
                        /\ engine.now = event.time
       /\ event_count' \in {event_count, event_count + 1}]_vars

\* A Departure was dispatched at the very time of the event before it, after
\* time had advanced.
DispatchOrderMonotonicWitness ==
    /\ TurnEnded(Departure)
    /\ event_count >= 3
    /\ before.engine.now = event.time
    /\ event.time > 0

\* ------------------------------------------------------------------ C20
\* C20 (Spec): at the end of a Departure's turn, if customers were waiting
\* when it began, the head of the queue is gone from it, the server is busy
\* with service_start_time the departure time, and a new Departure is
\* pending; if nobody was waiting, the server is idle, the queue is empty
\* and no Departure is pending.
NoIdlingBetweenCustomers ==
    TurnEnded(Departure)
    => IF before.server.queue # <<>>
       THEN /\ server.queue = Tail(before.server.queue)
            /\ server.busy
            /\ server.service_start_time = event.time
            /\ engine.now = event.time
            /\ engine.next_departure # None
            /\ engine.next_departure.event_type = Departure
            /\ engine.next_departure.time >= event.time
            /\ started = stats.served_customers + 1
       ELSE /\ server.queue = <<>>
            /\ ~server.busy
            /\ engine.next_departure = None
            /\ started = stats.served_customers

\* A Departure found two customers waiting; the first of them is in service
\* and the second is still queued.
NoIdlingBetweenCustomersWitness ==
    /\ TurnEnded(Departure)
    /\ Len(before.server.queue) = 2
    /\ server.queue = Tail(before.server.queue)
    /\ server.busy
    /\ engine.next_departure # None

\* ------------------------------------------------------------------ C21
\* The wait of the i-th customer to start service: its service start time
\* minus its own arrival time.
Wait(i) == starts[i] - arrivals[i]

RECURSIVE SumOfWaits(_)
SumOfWaits(n) == IF n = 0 THEN 0 ELSE SumOfWaits(n - 1) + Wait(n)

\* C21 (Spec): customers start service in arrival order: the customer
\* start_service pops is the earliest arrival not yet started, and the wait
\* it computes is now minus that arrival time.  total_wait_time is at all
\* times the sum of the waits of the customers that have started service,
\* each wait >= 0.  The queue length after the pop has been reported when
\* record_service_start is about to be called, which then adds the wait.
FifoWaits ==
    /\ [](/\ Len(starts) = started
          /\ started <= Len(arrivals)
          /\ \A i \in 1..started : Wait(i) >= 0
          /\ stats.total_wait_time = SumOfWaits(started)
          /\ pc = "service_start"
             => /\ wait_time = engine.now - arrivals[started + 1]
                /\ wait_time >= 0
                /\ stats.last_queue_length = Len(server.queue)
                /\ stats.last_event_time = engine.now)
    /\ [][/\ (pc = "start_service" /\ server.queue # <<>>)
             => /\ Head(server.queue) = arrivals[started + 1]
                /\ server'.queue = Tail(server.queue)
                /\ pc' = "service_start"
          /\ pc = "service_start"
             => /\ stats'.total_wait_time = stats.total_wait_time + wait_time
                /\ stats'.last_queue_length = stats.last_queue_length
                /\ starts' = Append(starts, engine.now)]_vars

\* Three customers have started service; the second and the third waited,
\* for different lengths of time.
FifoWaitsWitness ==
    /\ pc = "loop"
    /\ started = 3
    /\ Wait(1) = 0
    /\ Wait(2) > 0
    /\ Wait(3) > 0
    /\ Wait(2) # Wait(3)
    /\ stats.total_wait_time = Wait(2) + Wait(3)

\* ------------------------------------------------------------------ C22
\* C22 (Spec): receive_customer on a busy server appends `now` to the tail
\* of the wait queue, reports the new queue length, and returns without
\* entering start_service: busy, service_start_time, the scheduler (so the
\* pending Departure), served_customers, total_wait_time and total_busy_time
\* are what they were.
ReceiveOnBusyFrame ==
    [][(pc = "receive_customer" /\ server.busy)
       => /\ server'.queue = Append(server.queue, engine.now)
          /\ stats'.last_queue_length = Len(server'.queue)
          /\ server'.busy
          /\ server'.service_start_time = server.service_start_time
          /\ engine' = engine
          /\ engine.next_departure # None
          /\ stats'.served_customers = stats.served_customers
          /\ stats'.total_wait_time = stats.total_wait_time
          /\ stats'.total_busy_time = stats.total_busy_time
          /\ started' = started
          /\ pc' = "generate"]_vars

\* receive_customer has just returned on a server that was busy since an
\* earlier time with a customer already waiting.
ReceiveOnBusyFrameWitness ==
    /\ pc = "generate"
    /\ before.server.busy
    /\ Len(before.server.queue) = 1
    /\ server.queue = Append(before.server.queue, engine.now)
    /\ server.service_start_time < engine.now
    /\ engine.next_departure = before.engine.next_departure

\* ------------------------------------------------------------------ C23
\* C23 (Spec): customer conservation.  Between two turns every customer
\* whose Arrival was dispatched has been served, or waits in the queue, or
\* is the one in service.
CustomerConservation ==
    BetweenTurns
    => Len(arrivals) = stats.served_customers
                       + InSystem(Len(server.queue), server.busy)

\* Four customers arrived: one was served, one is in service, two wait.
CustomerConservationWitness ==
    /\ pc = "loop"
    /\ Len(arrivals) = 4
    /\ stats.served_customers = 1
    /\ server.busy
    /\ Len(server.queue) = 2

\* ------------------------------------------------------------------ C24
\* C24 (Spec): start_service reaches the point where it schedules the
\* Departure only with the Departure slot empty; a pending Departure leaves
\* the slot only by being the event run_step returns, the slot then being
\* empty; so the services begun are the Departures dispatched plus the one
\* pending, none lost.
DepartureNeverOverwritten ==
    /\ [](/\ pc = "service_start" => engine.next_departure = None
          /\ started = DeparturesDispatched + PendingOfKind(engine, Departure))
    /\ [][(/\ engine.next_departure # None
           /\ engine'.next_departure # engine.next_departure)
          => /\ pc = "loop"
             /\ event' = engine.next_departure
             /\ engine'.next_departure = None
             /\ pc' = "handle_departure"]_vars

\* The third service began, with customers waiting, after the first two
\* Departures were dispatched; its Departure is pending.
DepartureNeverOverwrittenWitness ==
    /\ pc = "loop"
    /\ started = 3
    /\ DeparturesDispatched = 2
    /\ engine.next_departure # None
    /\ server.queue # <<>>

\* ------------------------------------------------------------------ C25
\* C25 (Spec, every drawn duration >= 0): between two turns no pending
\* event, Arrival or Departure, lies before the scheduler's `now`.
PendingNotBeforeNow ==
    BetweenTurns => \A e \in PendingEvents(engine) : e.time >= engine.now

\* After time has advanced: a Departure due at `now` itself and an Arrival
\* due later are both pending.
PendingNotBeforeNowWitness ==
    /\ pc = "loop"
    /\ engine.now > 0
    /\ engine.next_departure # None
    /\ engine.next_departure.time = engine.now
    /\ engine.next_arrival # None
    /\ engine.next_arrival.time > engine.now

\* ------------------------------------------------------------------ C27
\* C27 (Spec): total_busy_time never exceeds `now`, so the utilization
\* reported is at most 1: the services completed all ended before the
\* current one began (service intervals do not overlap), and each adds its
\* own length, departure time minus service_start_time.
BusyTimeWithinNow ==
    /\ [](/\ stats.total_busy_time <= engine.now
          /\ utilization(stats, engine.now).num <= utilization(stats, engine.now).den
          /\ server.busy => stats.total_busy_time <= server.service_start_time
          /\ server.service_start_time <= engine.now)
    /\ [][pc = "handle_departure"
          => stats'.total_busy_time =
               stats.total_busy_time + (engine.now - server.service_start_time)]_vars

\* Two services are complete and the server has also been idle for a while:
\* the busy time is positive and below `now`.
BusyTimeWithinNowWitness ==
    /\ pc = "loop"
    /\ stats.served_customers = 2
    /\ stats.total_busy_time > 0
    /\ stats.total_busy_time < engine.now
    /\ server.busy

\* ------------------------------------------------------------------ C28
\* The loop has been left.
LoopLeft == pc \in {"done", "reported"}

\* C28 (SpecStop): under Events(n) the loop is left, and with exactly n
\* events dispatched; under Customers(n) it is left only with
\* served_customers = n; every iteration of the loop dispatches one event.
StopsExactlyAtLimit ==
    /\ [](LoopLeft
          => /\ condition.kind = "Events" => event_count = condition.bound
             /\ condition.kind = "Customers"
                => stats.served_customers = condition.bound)
    /\ [][(pc = "loop" /\ pc' # "done")
          => /\ event' # None
             /\ event_count' = event_count + 1]_vars
    /\ (condition.kind = "Events" => <>LoopLeft)

\* A run under Events(4) has left the loop after 4 events, short of the
\* model's own bound on events, with an event still pending.
StopsExactlyAtLimitWitness ==
    /\ pc = "done"
    /\ condition = Events(4)
    /\ event_count = 4
    /\ has_next_event(engine)

\* ------------------------------------------------------------------ C29
\* No event at or after the limit was dispatched, and once the loop is left
\* every pending event is at or after the limit.
NothingDispatchedAtLimit ==
    condition.kind = "Time"
    => /\ event # None => event.time < condition.bound
       /\ LoopLeft => /\ PendingEvents(engine) # {}
                      /\ \A e \in PendingEvents(engine) : e.time >= condition.bound

\* C29 as stated (SpecStop): under Time(max_time) no event with a timestamp
\* >= max_time is dispatched, `now` stays strictly below max_time, and the
\* event that would cross the bound remains pending.
NowBelowTimeLimit ==
    /\ NothingDispatchedAtLimit
    /\ condition.kind = "Time" => engine.now < condition.bound

\* C29 (SpecStop), as the code has it: under Time(max_time) no event with a
\* timestamp >= max_time is dispatched and the event that would cross the
\* bound remains pending; `now` is below max_time once an event has been
\* dispatched, and is 0 until then, whatever max_time is.
NowBelowTimeLimitOnceDispatched ==
    /\ NothingDispatchedAtLimit
    /\ condition.kind = "Time"
       => IF event_count > 0 THEN engine.now < condition.bound
                             ELSE engine.now = 0

\* The loop was left under Time(MaxStopTime) after several events, the last
\* one below the limit, with an Arrival at or after the limit still pending.
NowBelowTimeLimitWitness ==
    /\ pc = "done"
    /\ condition = Time(MaxStopTime)
    /\ event_count >= 3
    /\ engine.now = MaxStopTime - 1
    /\ engine.next_arrival # None
    /\ engine.next_arrival.time >= MaxStopTime

\* ------------------------------------------------------------------ C26
\* The Departure of the k-th service is pending, due before the horizon.
DeparturePending(k) ==
    /\ started = k
    /\ engine.next_departure # None
    /\ engine.next_departure.time < LiveHorizon

\* C26 (SpecLive): while the driver keeps dispatching and every Arrival is
\* re-armed strictly later than `now`, every pending Departure is
\* dispatched: the k-th service's Departure, once pending, leads to k
\* Departures dispatched, ties with Arrivals (taken first) notwithstanding.
DeparturesEventuallyDispatched ==
    \A k \in 1..MaxEvents :
        DeparturePending(k) ~> (DeparturesDispatched >= k)

\* A Departure was dispatched after the Arrival of the same timestamp, which
\* was taken first and is waiting in the queue.
DeparturesEventuallyDispatchedWitness ==
    /\ pc = "handle_departure"
    /\ event.event_type = Departure
    /\ event.time > 0
    /\ arrivals[Len(arrivals)] = event.time
    /\ server.queue # <<>>
    /\ server.queue[Len(server.queue)] = event.time
    /\ DeparturesDispatched = started

====
